---- MODULE Spec2Model ----
(***************************************************************************)
(* A model of renpy-translate.py: the parser of Ren'Py translation files,  *)
(* the TranslationString / TranslationItem objects with their cache, the   *)
(* cost estimate, the translation pass and the write-back of the files.    *)
(*                                                                         *)
(* A Python str is a sequence of one-character strings, so that strip,     *)
(* startswith, split, join and the regular expressions are computed        *)
(* character by character as the code computes them.  A line of a file is  *)
(* such a sequence with its line break as last character.                  *)
(*                                                                         *)
(* The module-level sys.exit(1) of line 30, which the author left in       *)
(* front of the open TODO, is not modelled: the model describes the run    *)
(* of the code that follows it.                                            *)
(***************************************************************************)
EXTENDS Integers, Sequences, FiniteSets, TLC

----------------------------------------------------------------------------
(* Bounds of the model *)

\* the longest file, in lines
MaxLines == 4
\* the longest original content of the TranslationItem harness, in characters
MaxLen == 3
\* how many times the harness calls TranslationItem.translate
MaxRounds == 2

----------------------------------------------------------------------------
(* Python values *)

\* Python's None, where a str or a dict is expected
None == <<"None">>

\* str(None), as str.format writes it
NoneText == <<"N", "o", "n", "e">>

Quote == "\""

\* the characters str.strip and the pattern \s take for whitespace
Whitespace == {" ", "\t", "\n", "\r", "\f"}

Lower == {"a", "b", "c", "d", "e", "f", "g", "h", "i", "j", "k", "l", "m",
          "n", "o", "p", "q", "r", "s", "t", "u", "v", "w", "x", "y", "z"}

Upper == {"A", "B", "C", "D", "E", "F", "G", "H", "I", "J", "K", "L", "M",
          "N", "O", "P", "Q", "R", "S", "T", "U", "V", "W", "X", "Y", "Z"}

Digits == {"0", "1", "2", "3", "4", "5", "6", "7", "8", "9"}

\* the pattern \w
WordChars == Lower \cup Upper \cup Digits \cup {"_"}

\* the class [A-z0-9_]: the range A-z also holds [ \ ] ^ _ (and the grave
\* accent, which a TLA+ string cannot hold and no modelled line uses)
IdentChars == Lower \cup Upper \cup Digits \cup {"[", "\\", "]", "^", "_"}

\* the class [A-z0-9:/?.=&#_-] of a hyperlink tag's attribute
LinkChars == IdentChars \cup {":", "/", "?", ".", "=", "&", "#", "-"}

\* the position after the longest run of characters of C that starts at p
RECURSIVE RunEnd(_, _, _)
RunEnd(s, p, C) ==
    IF p <= Len(s) /\ s[p] \in C THEN RunEnd(s, p + 1, C) ELSE p

\* the position before the longest run of characters of C that ends at p
RECURSIVE RunStart(_, _, _)
RunStart(s, p, C) ==
    IF p >= 1 /\ s[p] \in C THEN RunStart(s, p - 1, C) ELSE p

\* s[a:] of Python, a counted from 0
SliceFrom(s, a) == SubSeq(s, a + 1, Len(s))

\* str.strip()
strip(s) ==
    LET a == RunEnd(s, 1, Whitespace)
        b == RunStart(s, Len(s), Whitespace)
    IN  IF a > Len(s) THEN <<>> ELSE SubSeq(s, a, b)

\* str.startswith(prefix)
startswith(s, prefix) ==
    Len(s) >= Len(prefix) /\ SubSeq(s, 1, Len(prefix)) = prefix

\* bool(s) of a str, a dict or None
Truthy(v) == v # None /\ v # <<>>

\* None, where an object (by identity) is expected
NoObject == 0

\* None, where a line number is expected
NoLine == -1

\* a directory that does not exist; one that does holds the files written
\* to it and, when an earlier run left it, that run's files
NoDir == [exists |-> FALSE, stale |-> FALSE, written |-> <<>>]

\* a file that does not exist; one that does holds a dict
NoFile == [exists |-> FALSE, data |-> <<>>]

----------------------------------------------------------------------------
(* The regular expressions *)

NoMatch == [matched |-> FALSE, g1 |-> None, g2 |-> None, g3 |-> None]

\* re.match(r'(\s*)(\w+)?\s*"(.*)"', s): leading whitespace, an optional
\* word, whitespace, a quote, and the longest text up to a later quote of
\* the same line
QuotedMatch(s) ==
    LET p1 == RunEnd(s, 1, Whitespace)
        p2 == RunEnd(s, p1, WordChars)
        p3 == RunEnd(s, p2, Whitespace)
        closers == {j \in (p3 + 1)..Len(s) :
                       /\ s[j] = Quote
                       /\ \A k \in (p3 + 1)..(j - 1) : s[k] # "\n"}
        last == CHOOSE j \in closers : \A k \in closers : k <= j
    IN  IF p3 <= Len(s) /\ s[p3] = Quote /\ closers # {}
        THEN [matched |-> TRUE,
              g1 |-> SubSeq(s, 1, p1 - 1),
              g2 |-> IF p2 > p1 THEN SubSeq(s, p1, p2 - 1) ELSE None,
              g3 |-> SubSeq(s, p3 + 1, last - 1)]
        ELSE NoMatch

\* re.match(r"(\s*)(\w+)?\s*("")", s): Python joins the two adjacent
\* literals, so the pattern is (\s*)(\w+)?\s*() and matches every string
RewriteMatch(s) ==
    LET p1 == RunEnd(s, 1, Whitespace)
        p2 == RunEnd(s, p1, WordChars)
    IN  [matched |-> TRUE,
         g1 |-> SubSeq(s, 1, p1 - 1),
         g2 |-> IF p2 > p1 THEN SubSeq(s, p1, p2 - 1) ELSE None,
         g3 |-> <<>>]

TranslateWord == <<"t", "r", "a", "n", "s", "l", "a", "t", "e", " ">>

\* re.match(r"translate ([A-z0-9_]+) ([A-z0-9_]+)", line)
HeaderMatch(line) ==
    LET a == Len(TranslateWord) + 1
        b == RunEnd(line, a, IdentChars)
        c == RunEnd(line, b + 1, IdentChars)
    IN  /\ startswith(line, TranslateWord)
        /\ b > a
        /\ b <= Len(line) /\ line[b] = " "
        /\ c > b + 1

\* whether s reads w from position p on
ReadsAt(s, p, w) == p + Len(w) - 1 <= Len(s) /\ SubSeq(s, p, p + Len(w) - 1) = w

\* TAG_PATTERN at position p of s: the length of the tag matched there, or 0.
\* {/?i}|{/?q}|{/?b}|{/?size}|{/?a(=[A-z0-9:/?.=&#_-]+)?}
TagLenAt(s, p) ==
    LET q == IF ReadsAt(s, p + 1, <<"/">>) THEN p + 2 ELSE p + 1
        r == RunEnd(s, q + 2, LinkChars)
    IN  IF ~ReadsAt(s, p, <<"{">>) THEN 0
        ELSE IF ReadsAt(s, q, <<"i", "}">>) THEN q + 2 - p
        ELSE IF ReadsAt(s, q, <<"q", "}">>) THEN q + 2 - p
        ELSE IF ReadsAt(s, q, <<"b", "}">>) THEN q + 2 - p
        ELSE IF ReadsAt(s, q, <<"s", "i", "z", "e", "}">>) THEN q + 5 - p
        ELSE IF ReadsAt(s, q, <<"a", "=">>) /\ r > q + 2 /\ ReadsAt(s, r, <<"}">>)
             THEN r + 1 - p
        ELSE IF ReadsAt(s, q, <<"a", "}">>) THEN q + 2 - p
        ELSE 0

\* re.sub(TAG_PATTERN, "", s), from position p on
RECURSIVE RemoveTagsFrom(_, _)
RemoveTagsFrom(s, p) ==
    IF p > Len(s) THEN <<>>
    ELSE IF TagLenAt(s, p) > 0 THEN RemoveTagsFrom(s, p + TagLenAt(s, p))
    ELSE <<s[p]>> \o RemoveTagsFrom(s, p + 1)

RemoveTags(s) == RemoveTagsFrom(s, 1)

\* the escaped newline of a Ren'Py string: a backslash and the letter n
Delimiter == <<"\\", "n">>

\* s.split("\\n"), from position p on, cur being the segment read so far
RECURSIVE SplitFrom(_, _, _)
SplitFrom(s, p, cur) ==
    IF p > Len(s) THEN <<cur>>
    ELSE IF ReadsAt(s, p, Delimiter) THEN <<cur>> \o SplitFrom(s, p + 2, <<>>)
    ELSE SplitFrom(s, p + 1, Append(cur, s[p]))

Split(s) == SplitFrom(s, 1, <<>>)

\* a join that forgets the delimiter: "".join(parts)
RECURSIVE Join_NoDelimiter(_)
Join_NoDelimiter(parts) ==
    IF Len(parts) = 0 THEN <<>>
    ELSE parts[1] \o Join_NoDelimiter(Tail(parts))

\* "\\n".join(parts)
RECURSIVE Join(_)
Join(parts) ==
    IF Len(parts) = 0 THEN <<>>
    ELSE IF Len(parts) = 1 THEN parts[1]
    ELSE parts[1] \o Delimiter \o Join(Tail(parts))

----------------------------------------------------------------------------
(* The state *)

VARIABLES
    pc,                 \* where the run stands
    files,              \* the .rpy files glob found in the input directory, each its lines
    target_language,    \* args.target_language
    outputDir,          \* args.output_dir on disk, None while it does not exist
    cacheFile,          \* translation_cache.json on disk, None while absent
    TRANSLATION_CACHE,  \* the global dict: content -> (language -> text)
    loaded,             \* the dict as json.load returned it (line 219)
    backend,            \* what the translation service answered so far
    calls,              \* the contents sent to the translation service, in order
    items,              \* the TranslationItem objects: identity -> fields
    blocks,             \* the TranslationBlock objects: identity -> fields
    file_map,           \* file -> the blocks (identities) of its TranslationFile
    fileNo,             \* the file the current loop stands at
    i,                  \* the line the parser stands at (counted from 0)
    translation_file,   \* the blocks of the TranslationFile being parsed
    translation_block,  \* the parser's open TranslationBlock (identity), or None
    translation_item,   \* the parser's last TranslationItem (identity), or None
    block,              \* the line of the last block header, or None
    price,              \* the estimated cost, in millionths of a dollar
    cache_hits,         \* the estimate's count of cached units
    work,               \* the units the running translate loop still has to visit
    rounds              \* the harness's count of TranslationItem.translate calls

vars == <<pc, files, target_language, outputDir, cacheFile, TRANSLATION_CACHE,
          loaded, backend, calls, items, blocks, file_map, fileNo, i,
          translation_file, translation_block, translation_item, block, price,
          cache_hits, work, rounds>>

----------------------------------------------------------------------------
(* TranslationString *)

\* PPC = 20 / 1_000_000 dollars a character, here in millionths of a dollar
PPC == 20

FR == <<"f", "r">>
DE == <<"d", "e">>

\* the target languages a run is started with
Languages == {FR, DE}

\* what the translation service may answer: nothing, a word, or a text that
\* itself holds an escaped newline
Translations == {<<>>, <<"T">>, <<"T", "\\", "n", "T">>}

\* TranslationString.__init__
TranslationString(content) ==
    [content |-> content, to_language |-> None, translation |-> None]

\* TranslationString.pull_from_cache: the cached text, or None
pull_from_cache(cache, content, to_language) ==
    IF /\ content \in DOMAIN cache
       /\ DOMAIN cache[content] # {}
       /\ to_language \in DOMAIN cache[content]
       /\ Truthy(cache[content][to_language])
    THEN cache[content][to_language]
    ELSE None

\* a whitespace test that forgets strip: not self.content
IsBlank_NoStrip(content) == content = <<>>

\* the whitespace test of TranslationString.translate
IsBlank(content) == strip(content) = <<>>

\* which of its three ways TranslationString.translate takes
TranslatePath(content, to_language, cache) ==
    IF IsBlank(content) THEN "blank"
    ELSE IF Truthy(pull_from_cache(cache, content, to_language)) THEN "cached"
    ELSE "backend"

\* TRANSLATION_CACHE[self.content] = {to_language: self.translation}
CacheStore(cache, content, to_language, translation) ==
    [k \in DOMAIN cache \cup {content} |->
        IF k = content THEN (to_language :> translation) ELSE cache[k]]

\* an estimate that takes a content cached for any language as a hit
estimate_price_AnyLanguage(content, to_language, cache) ==
    IF content \in DOMAIN cache THEN <<0, 1>> ELSE <<Len(content) * PPC, 0>>

\* TranslationString.estimate_price: <<cost, cache hits>>
estimate_price(content, to_language, cache) ==
    IF Truthy(pull_from_cache(cache, content, to_language))
    THEN <<0, 1>>
    ELSE <<Len(content) * PPC, 0>>

----------------------------------------------------------------------------
(* TranslationItem *)

\* TranslationItem.sanitize: the units of an original content
sanitize(original_content) ==
    LET parts == Split(RemoveTags(original_content))
    IN  [k \in 1..Len(parts) |-> TranslationString(parts[k])]

\* TranslationItem.__init__: setting original_content runs sanitize
TranslationItem(source_line, target_line, original_content) ==
    [source_line |-> source_line,
     target_line |-> target_line,
     original_content |-> original_content,
     translation_strings |-> sanitize(original_content)]

\* TranslationItem.get_translated_content
get_translated_content(item) ==
    Join([k \in 1..Len(item.translation_strings) |->
             item.translation_strings[k].translation])

RECURSIVE SumPairs(_)
SumPairs(data) ==
    IF Len(data) = 0 THEN <<0, 0>>
    ELSE LET rest == SumPairs(Tail(data))
         IN  <<data[1][1] + rest[1], data[1][2] + rest[2]>>

\* TranslationItem.estimate_price
item_estimate_price(item, to_language, cache) ==
    SumPairs([k \in 1..Len(item.translation_strings) |->
                 estimate_price(item.translation_strings[k].content,
                                to_language, cache)])

\* the visits of TranslationItem.translate to the units of item id, in order
ItemWork(id) == [k \in 1..Len(items[id].translation_strings) |-> <<id, k>>]

----------------------------------------------------------------------------
(* One call of TranslationString.translate, on the unit at the head of work *)

CurUnit == items[work[1][1]].translation_strings[work[1][2]]

SetUnit(to_language, translation) ==
    [items EXCEPT ![work[1][1]].translation_strings[work[1][2]] =
        [content |-> CurUnit.content,
         to_language |-> to_language,
         translation |-> translation]]

Untouched == <<files, target_language, outputDir, cacheFile, loaded, blocks,
               file_map, fileNo, i, translation_file, translation_block,
               translation_item, block, price, cache_hits, rounds>>

\* lines 70-72: blank content is its own translation
TranslateBlank ==
    /\ pc = "translate" /\ work # <<>>
    /\ TranslatePath(CurUnit.content, target_language, TRANSLATION_CACHE) = "blank"
    /\ items' = SetUnit(target_language, CurUnit.content)
    /\ work' = Tail(work)
    /\ UNCHANGED <<pc, TRANSLATION_CACHE, backend, calls, Untouched>>

\* lines 74-77: a cached translation is taken
TranslateCached ==
    /\ pc = "translate" /\ work # <<>>
    /\ TranslatePath(CurUnit.content, target_language, TRANSLATION_CACHE) = "cached"
    /\ items' = SetUnit(target_language,
                        pull_from_cache(TRANSLATION_CACHE, CurUnit.content,
                                        target_language))
    /\ work' = Tail(work)
    /\ UNCHANGED <<pc, TRANSLATION_CACHE, backend, calls, Untouched>>

\* the answers the service may give for a content: the one it gave before,
\* or any when it was not asked yet
Replies(content, to_language) ==
    IF <<content, to_language>> \in DOMAIN backend
    THEN {backend[<<content, to_language>>]}
    ELSE Translations

\* lines 79-81: the service is called and its answer cached
TranslateBackend ==
    /\ pc = "translate" /\ work # <<>>
    /\ TranslatePath(CurUnit.content, target_language, TRANSLATION_CACHE) = "backend"
    /\ \E reply \in Replies(CurUnit.content, target_language) :
          /\ backend' = [k \in DOMAIN backend \cup {<<CurUnit.content, target_language>>} |->
                            IF k = <<CurUnit.content, target_language>>
                            THEN reply ELSE backend[k]]
          /\ items' = SetUnit(target_language, reply)
          /\ TRANSLATION_CACHE' = CacheStore(TRANSLATION_CACHE, CurUnit.content,
                                             target_language, reply)
    /\ calls' = Append(calls, CurUnit.content)
    /\ work' = Tail(work)
    /\ UNCHANGED <<pc, Untouched>>

----------------------------------------------------------------------------
(* A TranslationItem on its own: it is built from an original content, its  *)
(* translate method is called up to MaxRounds times and its cost estimated  *)
(* in between, against a cache as a former run may have left it.            *)

\* the characters of the original contents: a letter, a blank, the two
\* characters of the escaped newline and those of the tag {i}
ContentChars == {"a", " ", "\\", "n", "{", "i", "}"}

RECURSIVE SeqsUpTo(_, _)
SeqsUpTo(S, n) ==
    IF n = 0 THEN {<<>>}
    ELSE LET shorter == SeqsUpTo(S, n - 1)
         IN  shorter \cup {Append(s, c) : s \in shorter, c \in S}

\* a longer content: a text in italics, {i}a{/i}
SampleContents == {<<"{", "i", "}", "a", "{", "/", "i", "}">>}

Contents == SeqsUpTo(ContentChars, MaxLen) \cup SampleContents

\* what a former run may have cached for a content: a text in one language,
\* or the empty answer of the service
CachedDicts == {FR :> <<"C">>, DE :> <<"C">>, FR :> <<>>, DE :> <<>>}

\* the caches the harness starts from: empty, or one unit's content cached
ItemCaches(content) ==
    {<<>>} \cup
    {(sanitize(content)[k].content :> d) :
        k \in 1..Len(sanitize(content)), d \in CachedDicts}

InitItem ==
    /\ pc = "item"
    /\ \E content \in Contents :
          /\ items = <<TranslationItem(0, 0, content)>>
          /\ TRANSLATION_CACHE \in ItemCaches(content)
    /\ loaded = TRANSLATION_CACHE
    /\ target_language \in Languages
    /\ backend = <<>>
    /\ calls = <<>>
    /\ work = <<>>
    /\ rounds = 0
    /\ price = 0
    /\ cache_hits = 0
    /\ files = <<>>
    /\ outputDir = NoDir
    /\ cacheFile = NoFile
    /\ blocks = <<>>
    /\ file_map = <<>>
    /\ fileNo = 0
    /\ i = 0
    /\ translation_file = <<>>
    /\ translation_block = NoObject
    /\ translation_item = NoObject
    /\ block = NoLine

\* TranslationItem.translate is called (lines 112-114): its loop starts
ItemTranslate ==
    /\ pc \in {"item", "estimated"}
    /\ rounds < MaxRounds
    /\ pc' = "translate"
    /\ work' = ItemWork(1)
    /\ rounds' = rounds + 1
    /\ UNCHANGED <<files, target_language, outputDir, cacheFile, TRANSLATION_CACHE,
                   loaded, backend, calls, items, blocks, file_map, fileNo, i,
                   translation_file, translation_block, translation_item, block,
                   price, cache_hits>>

\* the loop of TranslationItem.translate ends
ItemTranslateDone ==
    /\ pc = "translate" /\ work = <<>>
    /\ pc' = "item"
    /\ UNCHANGED <<files, target_language, outputDir, cacheFile, TRANSLATION_CACHE,
                   loaded, backend, calls, items, blocks, file_map, fileNo, i,
                   translation_file, translation_block, translation_item, block,
                   price, cache_hits, work, rounds>>

\* TranslationItem.estimate_price is called (lines 128-130)
ItemEstimate ==
    /\ pc = "item"
    /\ price' = item_estimate_price(items[1], target_language, TRANSLATION_CACHE)[1]
    /\ cache_hits' = item_estimate_price(items[1], target_language, TRANSLATION_CACHE)[2]
    /\ pc' = "estimated"
    /\ UNCHANGED <<files, target_language, outputDir, cacheFile, TRANSLATION_CACHE,
                   loaded, backend, calls, items, blocks, file_map, fileNo, i,
                   translation_file, translation_block, translation_item, block,
                   work, rounds>>

NextItem ==
    \/ ItemTranslate
    \/ TranslateBlank
    \/ TranslateCached
    \/ TranslateBackend
    \/ ItemTranslateDone
    \/ ItemEstimate

SpecItem == InitItem /\ [][NextItem]_vars

----------------------------------------------------------------------------
(* The lines the modelled files are made of *)

HeaderLine == <<"t", "r", "a", "n", "s", "l", "a", "t", "e", " ", "a", " ", "b", ":", "\n">>
\* a commented original line, of the units h and blank:   # e "h\n "
CommentSayLine == <<"#", " ", "e", " ", Quote, "h", "\\", "n", " ", Quote, "\n">>
\* the commented clear marker:          # nvl clear
CommentClearLine == <<"#", " ", "n", "v", "l", " ", "c", "l", "e", "a", "r", "\n">>
\* a comment that quotes nothing:       # c
CommentPathLine == <<"#", " ", "c", "\n">>
OldLine == <<" ", "o", "l", "d", " ", Quote, "h", Quote, "\n">>
NewLine == <<" ", "n", "e", "w", " ", Quote, Quote, "\n">>
\* an active dialogue line with its speaker
SayLine == <<" ", "e", " ", Quote, Quote, "\n">>
\* an active dialogue line whose speaker is called olde
OldeSayLine == <<" ", "o", "l", "d", "e", " ", Quote, Quote, "\n">>
\* an active narrator line: an indented empty string and no speaker
NarratorLine == <<" ", Quote, Quote, "\n">>
ClearLine == <<"n", "v", "l", " ", "c", "l", "e", "a", "r", "\n">>
BlankLine == <<"\n">>

LineSet == {HeaderLine, CommentSayLine, CommentClearLine, CommentPathLine,
            OldLine, NewLine, SayLine, OldeSayLine, NarratorLine, ClearLine,
            BlankLine}

\* an old line that quotes nothing:      old h
OldBareLine == <<" ", "o", "l", "d", " ", "h", "\n">>

\* a file of dialogue and a file of strings, as Ren'Py writes them
DialogueFile == <<HeaderLine, CommentSayLine, SayLine>>
StringsFile == <<HeaderLine, CommentPathLine, OldLine, NewLine>>

\* files beyond the lines of LineSet or the length MaxLines: a strings
\* block whose old line quotes nothing, and a strings block with a second
\* old/new pair that has no comment before it
SampleFiles ==
    {<<HeaderLine, CommentPathLine, OldBareLine, NewLine>>,
     <<HeaderLine, CommentPathLine, OldLine, NewLine, OldLine, NewLine>>}

\* the input directories: empty, one file of up to MaxLines lines, one of
\* the sample files, or two files as Ren'Py writes them
InputDirs ==
    {<<>>} \cup
    {<<text_lines>> : text_lines \in SeqsUpTo(LineSet, MaxLines)} \cup
    {<<text_lines>> : text_lines \in SampleFiles} \cup
    {<<f, g>> : f \in {DialogueFile, StringsFile}, g \in {DialogueFile, StringsFile}}

\* the languages the translation service lists (get_languages)
available_languages == {FR, DE}

\* a language code the service does not list
XX == <<"x", "x">>

\* the cache files a run may find: none, or one that holds the content h
\* translated to one language
CacheFiles ==
    {NoFile} \cup
    {[exists |-> TRUE, data |-> (<<"h">> :> d)] : d \in {FR :> <<"C">>, DE :> <<"C">>}}

----------------------------------------------------------------------------
(* __main__ up to the call of main: check(args) and the language check *)

Init ==
    /\ pc = "check"
    /\ files = <<>>
    /\ target_language \in {FR, XX}
    /\ outputDir \in {NoDir, [exists |-> TRUE, stale |-> TRUE, written |-> <<>>]}
    /\ cacheFile \in CacheFiles
    /\ TRANSLATION_CACHE = <<>>
    /\ loaded = <<>>
    /\ backend = <<>>
    /\ calls = <<>>
    /\ items = <<>>
    /\ blocks = <<>>
    /\ file_map = <<>>
    /\ fileNo = 0
    /\ i = 0
    /\ translation_file = <<>>
    /\ translation_block = NoObject
    /\ translation_item = NoObject
    /\ block = NoLine
    /\ price = 0
    /\ cache_hits = 0
    /\ work = <<>>
    /\ rounds = 0

ParserVars == <<items, blocks, file_map, fileNo, i, translation_file,
                translation_block, translation_item, block>>

\* what rmtree and makedirs leave: an empty directory
FreshDir == [exists |-> TRUE, stale |-> FALSE, written |-> <<>>]

\* check (lines 42-48), no output directory yet: makedirs creates it
CheckCreates ==
    /\ pc = "check" /\ ~outputDir.exists
    /\ outputDir' = FreshDir
    /\ pc' = "client"
    /\ UNCHANGED <<files, target_language, cacheFile, TRANSLATION_CACHE, loaded,
                   backend, calls, ParserVars, price, cache_hits, work, rounds>>

\* check, the directory exists and the user answers yes: rmtree, makedirs
CheckOverwrites ==
    /\ pc = "check" /\ outputDir.exists
    /\ outputDir' = FreshDir
    /\ pc' = "client"
    /\ UNCHANGED <<files, target_language, cacheFile, TRANSLATION_CACHE, loaded,
                   backend, calls, ParserVars, price, cache_hits, work, rounds>>

\* check, the directory exists and the user answers no: sys.exit(0)
CheckAborts ==
    /\ pc = "check" /\ outputDir.exists
    /\ pc' = "aborted"
    /\ UNCHANGED <<files, target_language, outputDir, cacheFile, TRANSLATION_CACHE,
                   loaded, backend, calls, ParserVars, price, cache_hits, work,
                   rounds>>

\* lines 343-347, then the call of main
LanguageCheck ==
    /\ pc = "client"
    /\ pc' = IF target_language \in available_languages THEN "main" ELSE "unsupported"
    /\ UNCHANGED <<files, target_language, outputDir, cacheFile, TRANSLATION_CACHE,
                   loaded, backend, calls, ParserVars, price, cache_hits, work,
                   rounds>>

----------------------------------------------------------------------------
(* main: caching setup and file parsing *)

\* lines 213-222: the cache file is created when absent and loaded, and glob
\* reads the input directory; then the first file is opened (lines 229-232)
CachingSetup ==
    /\ pc = "main"
    /\ files' \in InputDirs
    /\ cacheFile' = [exists |-> TRUE, data |-> cacheFile.data]
    /\ TRANSLATION_CACHE' = cacheFile.data
    /\ loaded' = cacheFile.data
    /\ pc' = "parse"
    /\ fileNo' = 1
    /\ i' = 0
    /\ UNCHANGED <<target_language, outputDir, backend, calls, items, blocks,
                   file_map, translation_file, translation_block, translation_item,
                   block, price, cache_hits, work, rounds>>

text_lines == files[fileNo]

\* text_lines[k] of Python: k counted from 0, and -1 the last line
LineAt(k) == IF k < 0 THEN text_lines[Len(text_lines) + 1 + k] ELSE text_lines[k + 1]

Hash == <<"#">>
OldWord == <<"o", "l", "d">>
NewWord == <<"n", "e", "w">>
ClearWord == <<"n", "v", "l", " ", "c", "l", "e", "a", "r">>
HashClear == <<"#", " ">> \o ClearWord

\* which branch of the loop body (lines 234-264) takes line i
Branch ==
    LET line == LineAt(i)
        prev == strip(LineAt(i - 1))
    IN  IF i # block /\ HeaderMatch(line) THEN "block"
        ELSE IF startswith(prev, Hash) /\ startswith(strip(line), OldWord) THEN "old"
        ELSE IF startswith(prev, OldWord) /\ startswith(strip(line), NewWord) THEN "new"
        ELSE IF /\ startswith(prev, Hash)
                /\ ~startswith(prev, HashClear)
                /\ strip(line) # <<>>
             THEN "comment"
        ELSE "skip"

AtLine == pc = "parse" /\ fileNo <= Len(files) /\ i < Len(text_lines)

\* a block that records its header line counted from 1, as __repr__ prints it
TranslationBlock_FromOne(block_line) ==
    [block_line |-> block_line + 1, translation_items |-> <<>>]

\* TranslationBlock.__init__
TranslationBlock(block_line) ==
    [block_line |-> block_line, translation_items |-> <<>>]

\* a target line that is one line off: the line before line
set_target_line_Previous(id, line) == [items EXCEPT ![id].target_line = line - 1]

\* translation_item.target_line = i
set_target_line(id, line) == [items EXCEPT ![id].target_line = line]

\* TranslationBlock.add_translation_item
add_translation_item(id, item) ==
    [blocks EXCEPT ![id].translation_items = Append(@, item)]

Disk == <<files, target_language, outputDir, cacheFile, TRANSLATION_CACHE, loaded,
          backend, calls, price, cache_hits, work, rounds>>

\* lines 234-239: a block header closes the open block and opens a new one
ParseBlockStart ==
    /\ AtLine /\ Branch = "block"
    /\ block' = i
    /\ translation_file' = IF translation_block # NoObject
                           THEN Append(translation_file, translation_block)
                           ELSE translation_file
    /\ blocks' = Append(blocks, TranslationBlock(i))
    /\ translation_block' = Len(blocks) + 1
    /\ i' = i + 1
    /\ UNCHANGED <<pc, items, file_map, fileNo, translation_item, Disk>>

\* an old branch that passes over a line that does not match instead of
\* raising
ParseOld_SkipsMismatch ==
    /\ AtLine /\ Branch = "old"
    /\ LET m == QuotedMatch(strip(LineAt(i)))
       IN  /\ items' = IF m.matched
                       THEN Append(items, TranslationItem(i, 0, m.g3))
                       ELSE items
           /\ translation_item' = IF m.matched THEN Len(items) + 1
                                  ELSE translation_item
    /\ i' = i + 1
    /\ UNCHANGED <<pc, blocks, file_map, fileNo, translation_file,
                   translation_block, block, Disk>>

\* lines 241-244: an old line after a comment starts a TranslationItem;
\* m.group raises when the line does not match
ParseOld ==
    /\ AtLine /\ Branch = "old"
    /\ LET m == QuotedMatch(strip(LineAt(i)))
       IN  IF m.matched
           THEN /\ items' = Append(items, TranslationItem(i, 0, m.g3))
                /\ translation_item' = Len(items) + 1
                /\ i' = i + 1
                /\ pc' = pc
           ELSE /\ pc' = "crashed"
                /\ UNCHANGED <<items, translation_item, i>>
    /\ UNCHANGED <<blocks, file_map, fileNo, translation_file, translation_block,
                   block, Disk>>

\* lines 246-249: a new line after an old line gives the last item its
\* target line and adds it to the open block; either raises on None
ParseNew ==
    /\ AtLine /\ Branch = "new"
    /\ IF translation_item = NoObject
       THEN /\ pc' = "crashed"
            /\ UNCHANGED <<items, blocks, i>>
       ELSE /\ items' = set_target_line(translation_item, i)
            /\ IF translation_block = NoObject
               THEN /\ pc' = "crashed"
                    /\ UNCHANGED <<blocks, i>>
               ELSE /\ blocks' = add_translation_item(translation_block,
                                                      translation_item)
                    /\ i' = i + 1
                    /\ pc' = pc
    /\ UNCHANGED <<file_map, fileNo, translation_file, translation_block,
                   translation_item, block, Disk>>

\* lines 251-264: a comment followed by a line that is not blank: the comment
\* is the original, the line (or the one after nvl clear) the target
ParseComment ==
    /\ AtLine /\ Branch = "comment"
    /\ LET m == QuotedMatch(SliceFrom(strip(LineAt(i - 1)), 2))
           target == IF startswith(strip(LineAt(i)), ClearWord) THEN i + 1 ELSE i
       IN  IF ~m.matched
           THEN /\ pc' = "crashed"
                /\ UNCHANGED <<items, blocks, translation_item, i>>
           ELSE /\ items' = Append(items, TranslationItem(i, target, m.g3))
                /\ translation_item' = Len(items) + 1
                /\ IF translation_block = NoObject
                   THEN /\ pc' = "crashed"
                        /\ UNCHANGED <<blocks, i>>
                   ELSE /\ blocks' = add_translation_item(translation_block,
                                                          Len(items) + 1)
                        /\ i' = i + 1
                        /\ pc' = pc
    /\ UNCHANGED <<file_map, fileNo, translation_file, translation_block, block,
                   Disk>>

\* no branch takes the line
ParseSkip ==
    /\ AtLine /\ Branch = "skip"
    /\ i' = i + 1
    /\ UNCHANGED <<pc, items, blocks, file_map, fileNo, translation_file,
                   translation_block, translation_item, block, Disk>>

\* lines 266-268: the open block is added and the file recorded; the next
\* file is opened (lines 229-232) or, after the last, parsing is over
ParseEndOfFile ==
    /\ pc = "parse" /\ fileNo <= Len(files) /\ i = Len(text_lines)
    /\ file_map' = Append(file_map,
                          IF translation_block # NoObject
                          THEN Append(translation_file, translation_block)
                          ELSE translation_file)
    /\ translation_file' = <<>>
    /\ translation_block' = NoObject
    /\ translation_item' = NoObject
    /\ block' = NoLine
    /\ i' = 0
    /\ fileNo' = fileNo + 1
    /\ pc' = IF fileNo = Len(files) THEN "estimate" ELSE pc
    /\ UNCHANGED <<items, blocks, Disk>>

\* glob found no file
ParseNothing ==
    /\ pc = "parse" /\ Len(files) = 0
    /\ pc' = "estimate"
    /\ UNCHANGED <<ParserVars, Disk>>

----------------------------------------------------------------------------
(* main: price estimation, translation, writeback, persisting the cache *)

RECURSIVE Flatten(_)
Flatten(seqs) == IF Len(seqs) = 0 THEN <<>> ELSE seqs[1] \o Flatten(Tail(seqs))

\* TranslationBlock.estimate_price
block_estimate_price(id, to_language, cache) ==
    SumPairs([k \in 1..Len(blocks[id].translation_items) |->
                 item_estimate_price(items[blocks[id].translation_items[k]],
                                     to_language, cache)])

\* TranslationFile.estimate_price
file_estimate_price(translation_blocks, to_language, cache) ==
    SumPairs([k \in 1..Len(translation_blocks) |->
                 block_estimate_price(translation_blocks[k], to_language, cache)])

\* lines 272-286: the estimate is summed over the files and printed
Estimate ==
    /\ pc = "estimate"
    /\ LET total == SumPairs([k \in 1..Len(file_map) |->
                                 file_estimate_price(file_map[k], target_language,
                                                     TRANSLATION_CACHE)])
       IN  /\ price' = total[1]
           /\ cache_hits' = total[2]
    /\ pc' = "confirm"
    /\ UNCHANGED <<files, target_language, outputDir, cacheFile, TRANSLATION_CACHE,
                   loaded, backend, calls, ParserVars, work, rounds>>

\* the items TranslationFile.translate and the writeback visit, in order:
\* those of each block of the file, block after block
ItemsOfFile(translation_blocks) ==
    Flatten([k \in 1..Len(translation_blocks) |->
                blocks[translation_blocks[k]].translation_items])

\* the units TranslationFile.translate visits, in order
FileWork(translation_blocks) ==
    LET ids == ItemsOfFile(translation_blocks)
    IN  Flatten([k \in 1..Len(ids) |-> ItemWork(ids[k])])

\* lines 287-289, the user answers no: sys.exit(1)
ConfirmNo ==
    /\ pc = "confirm"
    /\ pc' = "aborted"
    /\ UNCHANGED <<files, target_language, outputDir, cacheFile, TRANSLATION_CACHE,
                   loaded, backend, calls, ParserVars, price, cache_hits, work,
                   rounds>>

\* lines 287-296, the user answers yes: the translation of the first file starts
ConfirmYes ==
    /\ pc = "confirm"
    /\ pc' = "translate"
    /\ fileNo' = 1
    /\ work' = IF Len(file_map) >= 1 THEN FileWork(file_map[1]) ELSE <<>>
    /\ UNCHANGED <<files, target_language, outputDir, cacheFile, TRANSLATION_CACHE,
                   loaded, backend, calls, items, blocks, file_map, i,
                   translation_file, translation_block, translation_item, block,
                   price, cache_hits, rounds>>

\* lines 294-296: the next file is translated
TranslateNextFile ==
    /\ pc = "translate" /\ work = <<>>
    /\ fileNo < Len(file_map)
    /\ fileNo' = fileNo + 1
    /\ work' = FileWork(file_map[fileNo + 1])
    /\ UNCHANGED <<pc, files, target_language, outputDir, cacheFile,
                   TRANSLATION_CACHE, loaded, backend, calls, items, blocks,
                   file_map, i, translation_file, translation_block,
                   translation_item, block, price, cache_hits, rounds>>

\* the loop of lines 294-296 ends
TranslateDone ==
    /\ pc = "translate" /\ work = <<>>
    /\ fileNo >= Len(file_map)
    /\ pc' = "writeback"
    /\ fileNo' = 1
    /\ UNCHANGED <<files, target_language, outputDir, cacheFile, TRANSLATION_CACHE,
                   loaded, backend, calls, items, blocks, file_map, i,
                   translation_file, translation_block, translation_item, block,
                   price, cache_hits, work, rounds>>

\* str.format of a match group: None reads None
FormatGroup(g) == IF g = None THEN NoneText ELSE g

\* lines 306-309: the target line as rewritten
RewriteLine(line, translated_content) ==
    LET m == RewriteMatch(line)
    IN  FormatGroup(m.g1) \o FormatGroup(m.g2) \o <<" ", Quote>>
            \o translated_content \o <<Quote, "\n">>

\* lines 304-309: the lines of a file after the rewrite of the target lines
\* of the items ids, in order; indexing past the last line raises
RECURSIVE RewriteLines(_, _)
RewriteLines(lines, ids) ==
    IF Len(ids) = 0 THEN [ok |-> TRUE, lines |-> lines]
    ELSE LET target == items[ids[1]].target_line
         IN  IF target >= Len(lines) THEN [ok |-> FALSE, lines |-> lines]
             ELSE RewriteLines(
                      [lines EXCEPT ![target + 1] =
                          RewriteLine(lines[target + 1],
                                      get_translated_content(items[ids[1]]))],
                      Tail(ids))

\* f.writelines(text_lines): the lines one after the other
writelines(lines) == Flatten(lines)

\* lines 301-314: a file is read again, rewritten and written to the output
\* directory
Writeback ==
    /\ pc = "writeback" /\ fileNo <= Len(file_map)
    /\ LET r == RewriteLines(files[fileNo], ItemsOfFile(file_map[fileNo]))
       IN  IF r.ok
           THEN /\ outputDir' = [outputDir EXCEPT
                                    !.written = Append(@, writelines(r.lines))]
                /\ fileNo' = fileNo + 1
                /\ pc' = pc
           ELSE /\ pc' = "crashed"
                /\ UNCHANGED <<outputDir, fileNo>>
    /\ UNCHANGED <<files, target_language, cacheFile, TRANSLATION_CACHE, loaded,
                   backend, calls, items, blocks, file_map, i, translation_file,
                   translation_block, translation_item, block, price, cache_hits,
                   work, rounds>>

\* lines 316-318: the cache is written to its file, and the run ends
PersistCache ==
    /\ pc = "writeback" /\ fileNo > Len(file_map)
    /\ cacheFile' = [exists |-> TRUE, data |-> TRANSLATION_CACHE]
    /\ pc' = "done"
    /\ UNCHANGED <<files, target_language, outputDir, TRANSLATION_CACHE, loaded,
                   backend, calls, ParserVars, price, cache_hits, work, rounds>>

\* lines 349-352: a KeyboardInterrupt raised anywhere in main is caught by
\* the handler, which prints and lets the run end
Interrupt ==
    /\ pc \in {"main", "parse", "estimate", "confirm", "translate", "writeback"}
    /\ pc' = "interrupted"
    /\ UNCHANGED <<files, target_language, outputDir, cacheFile, TRANSLATION_CACHE,
                   loaded, backend, calls, ParserVars, price, cache_hits, work,
                   rounds>>

Next ==
    \/ CheckCreates
    \/ CheckOverwrites
    \/ CheckAborts
    \/ LanguageCheck
    \/ CachingSetup
    \/ ParseBlockStart
    \/ ParseOld
    \/ ParseNew
    \/ ParseComment
    \/ ParseSkip
    \/ ParseEndOfFile
    \/ ParseNothing
    \/ Estimate
    \/ ConfirmNo
    \/ ConfirmYes
    \/ TranslateBlank
    \/ TranslateCached
    \/ TranslateBackend
    \/ TranslateNextFile
    \/ TranslateDone
    \/ Writeback
    \/ PersistCache
    \/ Interrupt

Spec == Init /\ [][Next]_vars

----------------------------------------------------------------------------
(* Properties *)

\* every unit of every TranslationItem, as <<item, position>>
Units ==
    UNION {{<<id, k>> : k \in 1..Len(items[id].translation_strings)} :
              id \in 1..Len(items)}

UnitAt(u) == items[u[1]].translation_strings[u[2]]

\* a content of whitespace characters only (the empty content is one)
AllWhitespace(content) ==
    \A k \in 1..Len(content) : content[k] \in {" ", "\t", "\n", "\r", "\f"}

\* how many times a content was sent to the translation service
CallsFor(content) == Cardinality({k \in 1..Len(calls) : calls[k] = content})

\* the units on which translate has run
Translated(u) == UnitAt(u).to_language # None

\* C3 (as claimed): for a content C that is not whitespace and has no entry
\* for the target language in the cache the run starts with, the translate
\* calls on units of content C make exactly one call of the translation
\* service, and all of them end with the same translation.
C3_ExactlyOneBackendCall ==
    \A u \in Units :
        LET C == UnitAt(u).content
        IN  (/\ ~AllWhitespace(C)
             /\ ~(C \in DOMAIN loaded /\ target_language \in DOMAIN loaded[C]))
            => /\ CallsFor(C) <= 1
               /\ Translated(u) => CallsFor(C) = 1
               /\ \A v \in Units :
                     (Translated(u) /\ Translated(v) /\ UnitAt(v).content = C)
                     => UnitAt(v).translation = UnitAt(u).translation

\* the translate method of the item has run to its end at least once
AllTranslated == pc \in {"item", "estimated"} /\ rounds >= 1

\* the segments of a text: the parts between its escaped newlines
Segments(text) == Len(Split(text))

RECURSIVE SumSegments(_)
SumSegments(units) ==
    IF Len(units) = 0 THEN 0
    ELSE Segments(units[1].translation) + SumSegments(Tail(units))

C8_BlankTranslatesToItself ==
    [][(/\ pc = "translate" /\ work # <<>>
        /\ AllWhitespace(CurUnit.content)
        /\ work' = Tail(work))
       => /\ items'[work[1][1]].translation_strings[work[1][2]].translation
                = CurUnit.content
          /\ calls' = calls
          /\ backend' = backend
          /\ TRANSLATION_CACHE' = TRANSLATION_CACHE]_vars

\* C8's case: translate has run on a unit that is a blank
C8_Witness ==
    \E u \in Units :
        /\ UnitAt(u).content = <<" ">>
        /\ Translated(u)
        /\ UnitAt(u).translation = <<" ">>

\* C9 (as claimed): once translate has run on every unit, the estimate for
\* the same language is cost 0 and as many cache hits as there are units.
C9_ReestimateIsFree ==
    (pc = "estimated" /\ rounds >= 1)
        => /\ price = 0
           /\ cache_hits = Len(items[1].translation_strings)

----------------------------------------------------------------------------
(* Properties of the parser and of the writeback *)

Range(seq) == {seq[k] : k \in 1..Len(seq)}

\* f.readlines() of a text: its lines, each with its line break
RECURSIVE ReadLinesFrom(_, _, _)
ReadLinesFrom(text, p, cur) ==
    IF p > Len(text) THEN (IF cur = <<>> THEN <<>> ELSE <<cur>>)
    ELSE IF text[p] = "\n" THEN <<Append(cur, "\n")>> \o ReadLinesFrom(text, p + 1, <<>>)
    ELSE ReadLinesFrom(text, p + 1, Append(cur, text[p]))

readlines(text) == ReadLinesFrom(text, 1, <<>>)

\* the target line numbers recorded for file k
TargetsOf(k) == {items[id].target_line : id \in Range(ItemsOfFile(file_map[k]))}

\* the items recorded for file k with target line n
ItemsAt(k, n) == {id \in Range(ItemsOfFile(file_map[k])) : items[id].target_line = n}

\* the output files written so far
Written == 1..Len(outputDir.written)

\* C1 (as claimed): a rewritten output file has as many lines as its source
\* file, and every line that is no item's target line is the source's line.
C1_OtherLinesUntouched ==
    \A k \in Written :
        LET out == readlines(outputDir.written[k])
        IN  /\ Len(out) = Len(files[k])
            /\ \A n \in 0..(Len(files[k]) - 1) :
                  n \notin TargetsOf(k) => out[n + 1] = files[k][n + 1]

\* the positions of the quotes of a line
QuotesOf(line) == {p \in 1..Len(line) : line[p] = Quote}

FirstQuote(line) == CHOOSE p \in QuotesOf(line) : \A q \in QuotesOf(line) : p <= q
LastQuote(line) == CHOOSE p \in QuotesOf(line) : \A q \in QuotesOf(line) : q <= p

\* a line of the shape <indent><optional token>"<content>": whitespace, at
\* most one word, whitespace, and a quoted string
HasQuotedShape(line) ==
    /\ Cardinality(QuotesOf(line)) >= 2
    /\ LET before == strip(SubSeq(line, 1, FirstQuote(line) - 1))
       IN  \A p \in 1..Len(before) : before[p] \in WordChars

\* the leading token of a line of that shape, <<>> when it has none
TokenOf(line) == strip(SubSeq(line, 1, FirstQuote(line) - 1))

\* C2 (as claimed): the rewrite of a target line of the quoted shape keeps
\* what stands before the quoted string (the indentation and the token, and
\* no token where the line has none) and puts the translated content
\* between the quotes.
C2_OnlyQuotedPartReplaced ==
    \A k \in Written :
        \A n \in TargetsOf(k) :
            (/\ Len(readlines(outputDir.written[k])) = Len(files[k])
             /\ HasQuotedShape(files[k][n + 1])
             /\ Cardinality(ItemsAt(k, n)) = 1)
            => LET line == files[k][n + 1]
                   out == readlines(outputDir.written[k])[n + 1]
                   id == CHOOSE x \in ItemsAt(k, n) : TRUE
               IN  /\ HasQuotedShape(out)
                   /\ SubSeq(out, 1, FirstQuote(out)) = SubSeq(line, 1, FirstQuote(line))
                   /\ TokenOf(out) = TokenOf(line)
                   /\ SubSeq(out, FirstQuote(out) + 1, LastQuote(out) - 1)
                          = get_translated_content(items[id])

\* C4 (as claimed): an entry of the cache, loaded or added, stays in it with
\* its value from then on, and the cache as it is at the end is what the
\* run persists.
C4_CacheNeverLosesAnEntry ==
    [][/\ \A c \in DOMAIN TRANSLATION_CACHE :
             /\ c \in DOMAIN TRANSLATION_CACHE'
             /\ \A l \in DOMAIN TRANSLATION_CACHE[c] :
                   /\ l \in DOMAIN TRANSLATION_CACHE'[c]
                   /\ TRANSLATION_CACHE'[c][l] = TRANSLATION_CACHE[c][l]
       /\ pc' = "done" => cacheFile'.data = TRANSLATION_CACHE']_vars

\* C10 (as claimed): a file with a recorded target line that is not of the
\* quoted shape is not written to the output directory.
C10_NoRewriteOfOtherShapes ==
    \A k \in Written :
        \A n \in TargetsOf(k) :
            n < Len(files[k]) => HasQuotedShape(files[k][n + 1])

\* the shapes of lines the parser's branches are written for
IsComment(line) == startswith(strip(line), Hash)
\* old "<text>": the keyword old and a quoted text
IsOldText(line) ==
    LET m == QuotedMatch(strip(line)) IN m.matched /\ m.g2 = OldWord
OldTextOf(line) == QuotedMatch(strip(line)).g3
IsNew(line) == startswith(strip(line), NewWord)
\* # <token> "<text>": a commented original that quotes a text
IsQuotedComment(line) ==
    /\ startswith(strip(line), <<"#", " ">>)
    /\ ~startswith(strip(line), HashClear)
    /\ QuotedMatch(SliceFrom(strip(line), 2)).matched
QuotedCommentOf(line) == QuotedMatch(SliceFrom(strip(line), 2)).g3

\* the step appends exactly one new TranslationItem, of the given fields, to
\* the open block and leaves every other block as it was
AppendsOne(source_line, target_line, original_content) ==
    /\ pc' = "parse"
    /\ translation_block' = translation_block
    /\ Len(blocks') = Len(blocks)
    /\ \A b \in DOMAIN blocks : b # translation_block => blocks'[b] = blocks[b]
    /\ \E id \in DOMAIN items' :
          /\ blocks'[translation_block] =
                [blocks[translation_block] EXCEPT
                    !.translation_items = Append(@, id)]
          /\ id \notin Range(blocks[translation_block].translation_items)
          /\ items'[id].source_line = source_line
          /\ items'[id].target_line = target_line
          /\ items'[id].original_content = original_content

\* the step adds no TranslationItem to any block
AppendsNone ==
    /\ \A b \in DOMAIN blocks : blocks'[b] = blocks[b]
    /\ \A b \in DOMAIN blocks' \ DOMAIN blocks : blocks'[b].translation_items = <<>>

\* the parser is in an open block at line i of a file, and the step takes the
\* line (it is not the arrival of an interrupt)
TakesLine == AtLine /\ translation_block # NoObject /\ pc' # "interrupted"

\* C6: in a block, a comment line, an old "<text>" line and a new line in a
\* row make the parser append exactly one TranslationItem to the open block:
\* nothing is appended at the old line, and at the new line one item whose
\* original content is the quoted text of the old line, whose source line is
\* the old line's index and whose target line is the new line's index.
C6_OldNewPairAppendsOneItem ==
    [][/\ ( /\ TakesLine /\ i >= 1 /\ i + 1 < Len(text_lines)
            /\ IsComment(LineAt(i - 1))
            /\ IsOldText(LineAt(i))
            /\ IsNew(LineAt(i + 1)) )
          => (pc' = "parse" /\ i' = i + 1 /\ AppendsNone)
       /\ ( /\ TakesLine /\ i >= 2
            /\ IsComment(LineAt(i - 2))
            /\ IsOldText(LineAt(i - 1))
            /\ IsNew(LineAt(i)) )
          => (i' = i + 1 /\ AppendsOne(i - 1, i, OldTextOf(LineAt(i - 1))))]_vars

\* the new line of such a triple has just been taken, and the open block
\* holds the item of the pair
C6_Witness ==
    /\ pc = "parse" /\ fileNo <= Len(files) /\ i >= 3 /\ i <= Len(text_lines)
    /\ IsComment(LineAt(i - 3)) /\ IsOldText(LineAt(i - 2)) /\ IsNew(LineAt(i - 1))
    /\ translation_block # NoObject
    /\ Len(blocks[translation_block].translation_items) = 1
    /\ LET item == items[blocks[translation_block].translation_items[1]]
       IN  /\ item.original_content = <<"h">>
           /\ item.source_line = i - 2
           /\ item.target_line = i - 1

\* C7 (as claimed): in a block, a commented quoted original followed by a
\* line of dialogue (not blank, not a block header, not an old "<text>" line
\* of a strings block) yields one TranslationItem whose source line is the
\* current line and whose target line is the current line, or the line after
\* it when the current line starts with nvl clear; and the line after a
\* "# nvl clear" comment takes nothing from that comment.
C7_CommentedOriginalYieldsItem ==
    [][/\ ( /\ TakesLine /\ i >= 1
            /\ IsQuotedComment(LineAt(i - 1))
            /\ strip(LineAt(i)) # <<>>
            /\ ~HeaderMatch(LineAt(i))
            /\ ~IsOldText(LineAt(i)) )
          => /\ i' = i + 1
             /\ AppendsOne(i,
                           IF startswith(strip(LineAt(i)), ClearWord)
                           THEN i + 1 ELSE i,
                           QuotedCommentOf(LineAt(i - 1)))
       /\ ( /\ TakesLine /\ i >= 1
            /\ startswith(strip(LineAt(i - 1)), HashClear) )
          => AppendsNone]_vars

----------------------------------------------------------------------------
(* Properties of the parser's failures and of the run as a whole *)

\* the parser is at a line it matches against the quoted-string pattern,
\* and the text it matches does not have the pattern: an old line after a
\* comment, or the comment before a line that is not blank
ExpectedQuoteMissing ==
    /\ AtLine
    /\ ~(i # block /\ HeaderMatch(LineAt(i)))
    /\ IsComment(LineAt(i - 1))
    /\ \/ /\ startswith(strip(LineAt(i)), OldWord)
          /\ ~QuotedMatch(strip(LineAt(i))).matched
       \/ /\ ~startswith(strip(LineAt(i)), OldWord)
          /\ ~startswith(strip(LineAt(i - 1)), HashClear)
          /\ strip(LineAt(i)) # <<>>
          /\ ~QuotedMatch(SliceFrom(strip(LineAt(i - 1)), 2)).matched

\* C11: at such a line the parser fails: the line is not passed, no
\* TranslationItem is created or appended, the failed run takes no further
\* step, and it has called no service and written no output file and no
\* cache entry.
C11_MismatchIsParseFailure ==
    [][/\ (ExpectedQuoteMissing /\ pc' # "interrupted")
          => /\ pc' = "crashed"
             /\ i' = i
             /\ items' = items
             /\ blocks' = blocks
             /\ calls' = <<>>
             /\ outputDir'.written = <<>>
             /\ cacheFile' = cacheFile
             /\ TRANSLATION_CACHE' = loaded
       /\ pc # "crashed"]_vars

\* the parse has failed at an old line that quotes nothing
C11_Witness ==
    /\ pc = "crashed" /\ file_map = <<>> /\ fileNo = 1
    /\ i = 2
    /\ LineAt(i) = OldBareLine
    /\ IsComment(LineAt(i - 1))
    /\ items = <<>>
    /\ calls = <<>>

\* a cache file holds the answer the service gave for a content
OnDisk(file, answers, content) ==
    /\ file.exists
    /\ content \in DOMAIN file.data
    /\ target_language \in DOMAIN file.data[content]
    /\ file.data[content][target_language] = answers[<<content, target_language>>]

\* C12 (as claimed): when an interrupt ends the run during the translation
\* phase, the cache file on disk holds every translation the service gave
\* before it, and the interrupted run translates nothing more.
C12_InterruptPersistsCache ==
    [][/\ (pc = "translate" /\ pc' = "interrupted")
          => \A k \in 1..Len(calls') : OnDisk(cacheFile', backend', calls'[k])
       /\ pc # "interrupted"]_vars

\* the output directory is as the run found it: absent, or still holding
\* what it held before the run
DirAsFound == ~outputDir.exists \/ outputDir.stale

\* the cache file is as the run found it: one of the files a run may find,
\* holding what was loaded from it (a file the caching setup created is
\* empty, and is none of them)
CacheFileAsFound == cacheFile \in CacheFiles /\ cacheFile.data = loaded

\* C13 (as claimed): the estimate is made before the confirmation, and a
\* run the user ends at the confirmation has called no service, written no
\* output file, left the output directory as it was and created or changed
\* no cache file.
C13_AbortAtGateWritesNothing ==
    [][/\ (pc # "confirm" /\ pc' = "confirm")
          => LET total == SumPairs([k \in 1..Len(file_map) |->
                                       file_estimate_price(file_map[k],
                                                           target_language,
                                                           TRANSLATION_CACHE)])
             IN  price' = total[1] /\ cache_hits' = total[2]
       /\ (pc = "confirm" /\ pc' = "aborted")
          => /\ calls = <<>>
             /\ outputDir.written = <<>>
             /\ DirAsFound
             /\ CacheFileAsFound]_vars

\* C14 (as claimed): a run that ends because the target language is not
\* supported has begun no work: the output directory is as the run found
\* it, nothing was parsed or translated, and no file was written.
C14_UnsupportedLanguageDoesNothing ==
    pc = "unsupported"
        => /\ DirAsFound
           /\ outputDir.written = <<>>
           /\ cacheFile \in CacheFiles
           /\ files = <<>> /\ file_map = <<>> /\ items = <<>> /\ blocks = <<>>
           /\ calls = <<>>

\* the tags of a text, in order: re.findall of TAG_PATTERN, whole matches
RECURSIVE TagsFrom(_, _)
TagsFrom(s, p) ==
    IF p > Len(s) THEN <<>>
    ELSE IF TagLenAt(s, p) > 0
         THEN <<SubSeq(s, p, p + TagLenAt(s, p) - 1)>> \o TagsFrom(s, p + TagLenAt(s, p))
    ELSE TagsFrom(s, p + 1)

TagsOf(s) == TagsFrom(s, 1)

\* C15 (as claimed): no content sent to the service holds a tag, and the
\* translated content the rewrite puts into the target line holds the tags
\* of the original content, in their order.
C15_TagsKeptInRewrite ==
    AllTranslated =>
        /\ \A k \in 1..Len(calls) : TagsOf(calls[k]) = <<>>
        /\ TagsOf(get_translated_content(items[1]))
              = TagsOf(items[1].original_content)

\* the indices of the lines of file k that match the header pattern
HeaderLinesOf(k) == {n \in 0..(Len(files[k]) - 1) : HeaderMatch(files[k][n + 1])}

\* C16: a parsed file has one block for each line that matches the header
\* pattern, in the order of the lines, each with the index of its line; a
\* block is recorded whether or not it holds items, the last one included.
C16_OneBlockPerHeader ==
    \A k \in 1..Len(file_map) :
        /\ Len(file_map[k]) = Cardinality(HeaderLinesOf(k))
        /\ \A j \in 1..Len(file_map[k]) :
              /\ blocks[file_map[k][j]].block_line \in HeaderLinesOf(k)
              /\ \A h \in 1..(j - 1) :
                    blocks[file_map[k][h]].block_line
                        < blocks[file_map[k][j]].block_line

\* a file of two headers is parsed: the first block holds an item and the
\* last, open at the end of the file, holds none
C16_Witness ==
    /\ Len(file_map) = 1
    /\ Len(file_map[1]) = 2
    /\ blocks[file_map[1][1]].translation_items # <<>>
    /\ blocks[file_map[1][2]].translation_items = <<>>
    /\ blocks[file_map[1][2]].block_line = Len(files[1]) - 1

\* a sequence in which nothing occurs twice
NoRepeats(seq) == \A a, b \in 1..Len(seq) : seq[a] = seq[b] => a = b

\* the items that some block holds
Appended == UNION {Range(blocks[b].translation_items) : b \in DOMAIN blocks}

\* C17 (as claimed): in a parsed file every TranslationItem is held by one
\* block, once, and no file shares an item with another; and an item that
\* a block holds keeps its target line.
C17_StrictTree ==
    [][/\ \A k \in 1..Len(file_map') : NoRepeats(ItemsOfFile(file_map[k]))'
       /\ \A k, j \in 1..Len(file_map') :
             k # j => (Range(ItemsOfFile(file_map[k])) \cap
                       Range(ItemsOfFile(file_map[j])))' = {}
       /\ \A id \in Appended : items'[id].target_line = items[id].target_line]_vars

\* C18 (as claimed): unless the parse has failed (or the run was
\* interrupted), every TranslationItem the parser has created is held by a
\* block, or is the pending item of the file being parsed; once the file is
\* at its end none is left pending.
C18_NoItemDropped ==
    pc \notin {"crashed", "interrupted"}
        => \A id \in DOMAIN items :
              \/ id \in Appended
              \/ pc = "parse" /\ fileNo <= Len(files) /\ id = translation_item

\* C19 (as claimed): taking line 0 of a file never fails the parse and
\* creates no TranslationItem, whatever the last line of the file is.
C19_FirstLineHasNoContext ==
    [][(AtLine /\ i = 0 /\ pc' # "interrupted")
       => /\ pc' # "crashed"
          /\ items' = items
          /\ AppendsNone]_vars

\* the characters of a sequence of texts
RECURSIVE SumLen(_)
SumLen(texts) ==
    IF Len(texts) = 0 THEN 0 ELSE Len(texts[1]) + SumLen(Tail(texts))

\* C20: the characters sent to the service are never more than the
\* characters the estimate before the confirmation billed (price is the
\* billed characters times PPC; no call is made before the estimate).
C20_SentWithinEstimate ==
    /\ pc \in {"check", "client", "main", "parse", "estimate", "confirm"}
          => calls = <<>>
    /\ SumLen(calls) * PPC <= price

\* a run of two files is done: the estimate billed four characters (h and
\* a blank, twice) and one was sent
C20_Witness ==
    /\ pc = "done"
    /\ Len(files) = 2
    /\ price = 4 * PPC
    /\ SumLen(calls) = 1

====
